---- MODULE Spec2Model ----
(***************************************************************************)
(* Personal Finance Assistant API (src/main.py, src/schemas.py).           *)
(*                                                                         *)
(* The state is the document store (collections "transaction", "budget"    *)
(* and "chatmessage") together with the request being answered and its     *)
(* response.  A collection is a bag of documents: the store-generated _id  *)
(* is left out, and the store returns documents in no particular order.    *)
(* Strings the code parses or pattern-matches (dates, months, chat         *)
(* messages) are sequences of one-character strings, so the patterns,      *)
(* strptime, split/int and lower()/substring tests are computed.           *)
(* Amounts and limits are whole numbers: sums are exact.                   *)
(***************************************************************************)
EXTENDS Integers, Sequences, FiniteSets, Bags

VARIABLES transaction, budget, chatmessage, resp

vars == <<transaction, budget, chatmessage, resp>>

\* ---------------------------------------------------------------- bounds
MaxTxn == 2
MaxBud == 2
MaxChat == 2

\* ------------------------------------------------------- string helpers
None == <<"None">>

Digits == {"0", "1", "2", "3", "4", "5", "6", "7", "8", "9"}

DigitVal(c) ==
    CASE c = "0" -> 0 [] c = "1" -> 1 [] c = "2" -> 2 [] c = "3" -> 3
      [] c = "4" -> 4 [] c = "5" -> 5 [] c = "6" -> 6 [] c = "7" -> 7
      [] c = "8" -> 8 [] c = "9" -> 9

\* int(s) for a string of decimal digits; -1 stands for ValueError
RECURSIVE DigitsVal(_)
DigitsVal(s) ==
    IF Len(s) = 0 THEN 0
    ELSE 10 * DigitsVal(SubSeq(s, 1, Len(s) - 1)) + DigitVal(s[Len(s)])

int(s) ==
    IF Len(s) > 0 /\ \A i \in 1..Len(s) : s[i] \in Digits THEN DigitsVal(s) ELSE -1

\* s.split("-")
RECURSIVE split(_)
split(s) ==
    IF \A i \in 1..Len(s) : s[i] # "-" THEN <<s>>
    ELSE LET k == CHOOSE i \in 1..Len(s) : s[i] = "-" /\ \A j \in 1..(i - 1) : s[j] # "-"
         IN  <<SubSeq(s, 1, k - 1)>> \o split(SubSeq(s, k + 1, Len(s)))

\* --------------------------------------------------- schemas (schemas.py)
\* pattern ^\d{4}-\d{2}-\d{2}$
MatchesDatePattern(s) ==
    /\ Len(s) = 10
    /\ \A i \in {1, 2, 3, 4, 6, 7, 9, 10} : s[i] \in Digits
    /\ s[5] = "-" /\ s[8] = "-"

\* pattern ^\d{4}-\d{2}$
MatchesMonthPattern(s) ==
    /\ Len(s) = 7
    /\ \A i \in {1, 2, 3, 4, 6, 7} : s[i] \in Digits
    /\ s[5] = "-"

\* pattern ^(expense|income)$
MatchesTypePattern(s) == s \in {"expense", "income"}

\* variant: amount declared ge=0
ValidTransaction_AmountGe0(t) ==
    /\ t.amount >= 0
    /\ MatchesTypePattern(t.type)
    /\ MatchesDatePattern(t.date)

\* Transaction: amount gt=0, type pattern, date pattern
ValidTransaction(t) ==
    /\ t.amount > 0
    /\ MatchesTypePattern(t.type)
    /\ MatchesDatePattern(t.date)

\* Budget: month pattern, limit ge=0
ValidBudget(b) ==
    /\ MatchesMonthPattern(b.month)
    /\ b.limit >= 0

\* ------------------------------------------------------------- datetime
IsLeap(y) == (y % 4 = 0 /\ y % 100 # 0) \/ y % 400 = 0

DaysInMonth(y, m) ==
    IF m = 2 THEN (IF IsLeap(y) THEN 29 ELSE 28)
    ELSE IF m \in {4, 6, 9, 11} THEN 30 ELSE 31

\* datetime(year, month, day) raises ValueError outside these ranges
DateOk(y, m, d) ==
    /\ y >= 1 /\ y <= 9999
    /\ m >= 1 /\ m <= 12
    /\ d >= 1 /\ d <= DaysInMonth(y, m)

datetime(y, m, d) ==
    [tag |-> "datetime", year |-> y, month |-> m, day |-> d,
     hour |-> 0, minute |-> 0, second |-> 0]

\* the date field as posted: a str
RawDate(s) == [tag |-> "str", str |-> s]

\* datetime.strptime(s, "%Y-%m-%d"); on ValueError the handler keeps the str
StoredDate(s) ==
    LET p == split(s)
        y == int(p[1])
        m == int(p[2])
        d == int(p[3])
    IN  IF Len(p) = 3 /\ DateOk(y, m, d) THEN datetime(y, m, d) ELSE RawDate(s)

\* datetime ordering
DtLess(a, b) ==
    \/ a.year < b.year
    \/ a.year = b.year /\ a.month < b.month
    \/ a.year = b.year /\ a.month = b.month /\ a.day < b.day
    \/ a.year = b.year /\ a.month = b.month /\ a.day = b.day /\ a.hour < b.hour
    \/ a.year = b.year /\ a.month = b.month /\ a.day = b.day /\ a.hour = b.hour
         /\ a.minute < b.minute
    \/ a.year = b.year /\ a.month = b.month /\ a.day = b.day /\ a.hour = b.hour
         /\ a.minute = b.minute /\ a.second < b.second

DtLeq(a, b) == a = b \/ DtLess(a, b)

\* --------------------------------------------------------------- inputs
D_Jan31 == <<"2", "0", "2", "5", "-", "0", "1", "-", "3", "1">>
D_Feb01 == <<"2", "0", "2", "5", "-", "0", "2", "-", "0", "1">>
D_Dec31 == <<"2", "0", "2", "5", "-", "1", "2", "-", "3", "1">>
D_NextJan01 == <<"2", "0", "2", "6", "-", "0", "1", "-", "0", "1">>
D_Feb30 == <<"2", "0", "2", "5", "-", "0", "2", "-", "3", "0">>
D_Short == <<"2", "0", "2", "5", "-", "1", "-", "5">>

M_Jan == <<"2", "0", "2", "5", "-", "0", "1">>
M_Dec == <<"2", "0", "2", "5", "-", "1", "2">>
M_13 == <<"2", "0", "2", "5", "-", "1", "3">>
M_Short == <<"2", "0", "2", "5", "-", "1">>

Txn(a, ty, c, d) == [amount |-> a, type |-> ty, category |-> c, date |-> d]

TxnBodies ==
    { Txn(50, "expense", "groceries", D_Jan31),
      Txn(30, "expense", "rent", D_Jan31),
      Txn(50, "income", "groceries", D_Jan31),
      Txn(50, "expense", "groceries", D_Feb01),
      Txn(50, "expense", "groceries", D_Dec31),
      Txn(50, "expense", "groceries", D_NextJan01),
      Txn(50, "expense", "groceries", D_Feb30),
      Txn(0, "expense", "groceries", D_Jan31),
      Txn(50, "transfer", "groceries", D_Jan31),
      Txn(50, "expense", "groceries", D_Short) }

Bud(m, c, l) == [month |-> m, category |-> c, limit |-> l]

BudgetBodies ==
    { Bud(M_Jan, "groceries", 50),
      Bud(M_Jan, "groceries", 60),
      Bud(M_Dec, "rent", 50),
      Bud(M_Jan, "groceries", -1),
      Bud(M_Short, "groceries", 50) }

\* ------------------------------------------------- document store adapter
\* create_document(collection, document)
create_document(coll, doc) == coll (+) SetToBag({doc})

\* filters built by the handlers: {} / {"date": {"$gte", "$lt"}} / {"month": m}
FltAll == [kind |-> "all"]
FltDate(start, end) == [kind |-> "date", gte |-> start, lt |-> end]
FltMonth(m) == [kind |-> "month", month |-> m]

\* a range predicate with datetime operands selects only datetime values
Matches(doc, flt) ==
    CASE flt.kind = "all" -> TRUE
      [] flt.kind = "date" ->
            /\ doc.date.tag = "datetime"
            /\ DtLeq(flt.gte, doc.date)
            /\ DtLess(doc.date, flt.lt)
      [] flt.kind = "month" -> doc.month = flt.month

Min(a, b) == IF a < b THEN a ELSE b

\* every order in which the documents of bag B can come back
Orders(B) ==
    LET n == BagCardinality(B)
    IN  {o \in [1..n -> BagToSet(B)] :
            \A e \in BagToSet(B) : Cardinality({i \in 1..n : o[i] = e}) = CopiesIn(e, B)}

\* limit: <<>> for None, <<n>> for a cap of n
NoLimit == <<>>

\* get_documents(collection, filter, limit): the matching documents, in any
\* order the store may return them, cut to limit when one is given
get_documents(coll, flt, limit) ==
    LET keys == {d \in BagToSet(coll) : Matches(d, flt)}
        hit == [d \in keys |-> CopiesIn(d, coll)]
    IN  {IF limit = NoLimit THEN o ELSE SubSeq(o, 1, Min(limit[1], Len(o))) :
            o \in Orders(hit)}

\* create_document outcomes of the two chat inserts
PersistOutcomes == {"ok", "fail_user", "fail_assistant"}

\* ---------------------------------------------------------------- store
Idle == [op |-> "none"]

Init ==
    /\ transaction = EmptyBag
    /\ budget = EmptyBag
    /\ chatmessage = EmptyBag
    /\ resp = Idle

\* txn.model_dump() with date converted for storage
txn_dict(txn) == [txn EXCEPT !.date = StoredDate(txn.date)]

\* POST /api/transactions
add_transaction(txn, storeOk) ==
    /\ resp = Idle
    /\ IF ~ValidTransaction(txn)
       THEN /\ resp' = [op |-> "add_transaction", req |-> txn, status |-> 422]
            /\ UNCHANGED transaction
       ELSE IF ~storeOk
       THEN /\ resp' = [op |-> "add_transaction", req |-> txn, status |-> 500]
            /\ UNCHANGED transaction
       ELSE /\ BagCardinality(transaction) < MaxTxn
            /\ transaction' = create_document(transaction, txn_dict(txn))
            /\ resp' = [op |-> "add_transaction", req |-> txn, status |-> 200]
    /\ UNCHANGED <<budget, chatmessage>>

\* variant: the insert replaces the records of the same (month, category)
set_budget_upsert(b, storeOk) ==
    /\ resp = Idle
    /\ IF ~ValidBudget(b)
       THEN /\ resp' = [op |-> "set_budget", req |-> b, status |-> 422]
            /\ UNCHANGED budget
       ELSE IF ~storeOk
       THEN /\ resp' = [op |-> "set_budget", req |-> b, status |-> 500]
            /\ UNCHANGED budget
       ELSE /\ BagCardinality(budget) < MaxBud
            /\ budget' =
                  LET keep == {d \in BagToSet(budget) :
                                 d.month # b.month \/ d.category # b.category}
                  IN  create_document([d \in keep |-> CopiesIn(d, budget)], b)
            /\ resp' = [op |-> "set_budget", req |-> b, status |-> 200]
    /\ UNCHANGED <<transaction, chatmessage>>

\* POST /api/budgets
set_budget(b, storeOk) ==
    /\ resp = Idle
    /\ IF ~ValidBudget(b)
       THEN /\ resp' = [op |-> "set_budget", req |-> b, status |-> 422]
            /\ UNCHANGED budget
       ELSE IF ~storeOk
       THEN /\ resp' = [op |-> "set_budget", req |-> b, status |-> 500]
            /\ UNCHANGED budget
       ELSE /\ BagCardinality(budget) < MaxBud
            /\ budget' = create_document(budget, b)
            /\ resp' = [op |-> "set_budget", req |-> b, status |-> 200]
    /\ UNCHANGED <<transaction, chatmessage>>

\* ------------------------------------------------------------ dict helper
\* a dict is the sequence of its items in insertion order
DictHas(d, k) == \E i \in 1..Len(d) : d[i].k = k

DictGet(d, k, default) ==
    IF DictHas(d, k) THEN d[CHOOSE i \in 1..Len(d) : d[i].k = k].v ELSE default

DictSet(d, k, v) ==
    IF DictHas(d, k)
    THEN [i \in 1..Len(d) |-> IF d[i].k = k THEN [k |-> k, v |-> v] ELSE d[i]]
    ELSE Append(d, [k |-> k, v |-> v])

\* -------------------------------------------------------------- summary
\* year, m = map(int, month.split("-")); start = datetime(year, m, 1)
MonthOk(month) ==
    LET p == split(month)
    IN  /\ Len(p) = 2
        /\ int(p[1]) >= 0 /\ int(p[2]) >= 0
        /\ DateOk(int(p[1]), int(p[2]), 1)
        /\ int(p[2]) = 12 => DateOk(int(p[1]) + 1, 1, 1)

MonthStart(month) ==
    LET p == split(month) IN datetime(int(p[1]), int(p[2]), 1)

\* variant: the year rolls over for every month
MonthEnd_AlwaysNextYear(month) ==
    LET p == split(month) IN datetime(int(p[1]) + 1, 1, 1)

MonthEnd(month) ==
    LET p == split(month)
        year == int(p[1])
        m == int(p[2])
    IN  IF m = 12 THEN datetime(year + 1, 1, 1) ELSE datetime(year, m + 1, 1)

TxnFilter(month) ==
    IF month # None THEN FltDate(MonthStart(month), MonthEnd(month)) ELSE FltAll

BudgetFilter(month) == IF month # None THEN FltMonth(month) ELSE FltAll

\* sum(d.get("amount", 0) for d in docs if d.get("type") == ty)
RECURSIVE SumOfType(_, _)
SumOfType(docs, ty) ==
    IF Len(docs) = 0 THEN 0
    ELSE (IF docs[1].type = ty THEN docs[1].amount ELSE 0) + SumOfType(Tail(docs), ty)

\* variant: the type test is left out
ByCatStep_AnyType(by_cat, d) ==
    DictSet(by_cat, d.category, DictGet(by_cat, d.category, 0) + d.amount)

ByCatStep(by_cat, d) ==
    IF d.type = "expense"
    THEN DictSet(by_cat, d.category, DictGet(by_cat, d.category, 0) + d.amount)
    ELSE by_cat

RECURSIVE ByCat(_)
ByCat(docs) ==
    IF Len(docs) = 0 THEN <<>>
    ELSE ByCatStep(ByCat(SubSeq(docs, 1, Len(docs) - 1)), docs[Len(docs)])

\* variant: the first record of a category is kept
BudgetStep_FirstWins(budgets, b) ==
    IF DictHas(budgets, b.category) THEN budgets ELSE DictSet(budgets, b.category, b.limit)

BudgetStep(budgets, b) == DictSet(budgets, b.category, b.limit)

RECURSIVE BudgetsOf(_)
BudgetsOf(budget_docs) ==
    IF Len(budget_docs) = 0 THEN <<>>
    ELSE BudgetStep(BudgetsOf(SubSeq(budget_docs, 1, Len(budget_docs) - 1)),
                    budget_docs[Len(budget_docs)])

Summarize(docs, budget_docs) ==
    [income |-> SumOfType(docs, "income"),
     expense |-> SumOfType(docs, "expense"),
     net |-> SumOfType(docs, "income") - SumOfType(docs, "expense"),
     categories |-> ByCat(docs),
     budgets |-> BudgetsOf(budget_docs)]

\* the results summary(month) can return: the body, with what was fetched
SummaryResults(month) ==
    { [body |-> Summarize(docs, budget_docs),
       docs |-> {docs[i] : i \in 1..Len(docs)},
       budget_docs |-> budget_docs] :
         docs \in get_documents(transaction, TxnFilter(month), NoLimit),
         budget_docs \in get_documents(budget, BudgetFilter(month), NoLimit) }

\* GET /api/summary
summary(month) ==
    /\ resp = Idle
    /\ IF month # None /\ ~MonthOk(month)
       THEN resp' = [op |-> "summary", month |-> month, status |-> 500]
       ELSE \E r \in SummaryResults(month) :
               resp' = [op |-> "summary", month |-> month, status |-> 200,
                        body |-> r.body, docs |-> r.docs, budget_docs |-> r.budget_docs]
    /\ UNCHANGED <<transaction, budget, chatmessage>>

\* ---------------------------------------------------------- list endpoints
DigitChar(n) ==
    CASE n = 0 -> "0" [] n = 1 -> "1" [] n = 2 -> "2" [] n = 3 -> "3" [] n = 4 -> "4"
      [] n = 5 -> "5" [] n = 6 -> "6" [] n = 7 -> "7" [] n = 8 -> "8" [] n = 9 -> "9"

\* date().isoformat()
isoformat(dt) ==
    << DigitChar(dt.year \div 1000), DigitChar((dt.year \div 100) % 10),
       DigitChar((dt.year \div 10) % 10), DigitChar(dt.year % 10), "-",
       DigitChar(dt.month \div 10), DigitChar(dt.month % 10), "-",
       DigitChar(dt.day \div 10), DigitChar(dt.day % 10) >>

TxnItem(d) ==
    [d EXCEPT !.date = IF d.date.tag = "datetime" THEN isoformat(d.date) ELSE d.date.str]

\* GET /api/transactions
list_transactions(limit) ==
    /\ resp = Idle
    /\ \E docs \in get_documents(transaction, FltAll, limit) :
          resp' = [op |-> "list_transactions", status |-> 200,
                   items |-> [i \in 1..Len(docs) |-> TxnItem(docs[i])]]
    /\ UNCHANGED <<transaction, budget, chatmessage>>

\* GET /api/budgets
list_budgets(month) ==
    /\ resp = Idle
    /\ \E docs \in get_documents(budget, BudgetFilter(month), NoLimit) :
          resp' = [op |-> "list_budgets", status |-> 200, items |-> docs]
    /\ UNCHANGED <<transaction, budget, chatmessage>>

\* ------------------------------------------------------------------ chat
Upper == <<"A", "B", "C", "D", "E", "F", "G", "H", "I", "J", "K", "L", "M",
           "N", "O", "P", "Q", "R", "S", "T", "U", "V", "W", "X", "Y", "Z">>
Lower == <<"a", "b", "c", "d", "e", "f", "g", "h", "i", "j", "k", "l", "m",
           "n", "o", "p", "q", "r", "s", "t", "u", "v", "w", "x", "y", "z">>

\* str.lower()
lower(s) ==
    [i \in 1..Len(s) |->
        IF \E j \in 1..Len(Upper) : Upper[j] = s[i]
        THEN Lower[CHOOSE j \in 1..Len(Upper) : Upper[j] = s[i]]
        ELSE s[i]]

\* sub in s
Contains(sub, s) ==
    \E i \in 0..(Len(s) - Len(sub)) : SubSeq(s, i + 1, i + Len(sub)) = sub

K_spend == <<"s", "p", "e", "n", "d">>
K_expense == <<"e", "x", "p", "e", "n", "s", "e">>
K_income == <<"i", "n", "c", "o", "m", "e">>
K_budget == <<"b", "u", "d", "g", "e", "t">>

Msg_hello == <<"h", "e", "l", "l", "o">>
Msg_Spend == <<"S", "p", "e", "n", "d">>
Msg_all == <<"b", "u", "d", "g", "e", "t", " ", "I", "n", "c", "o", "m", "e", " ",
             "e", "x", "p", "e", "n", "s", "e">>
Msg_budget_income == <<"b", "u", "d", "g", "e", "t", " ", "I", "N", "C", "O", "M", "E">>
Msg_Budget == <<"B", "u", "d", "g", "e", "t">>

Messages == {Msg_hello, Msg_Spend, Msg_all, Msg_budget_income, Msg_Budget}

\* max(categories, key=...): the first key holding the largest value
TopCat(categories) ==
    categories[CHOOSE i \in 1..Len(categories) :
                  /\ \A j \in 1..Len(categories) : categories[j].v <= categories[i].v
                  /\ \A j \in 1..(i - 1) : categories[j].v < categories[i].v].k

\* variant: spent >= lim counts as over
BudgetLine_OverAtLimit(s, item) ==
    LET spent == DictGet(s.categories, item.k, 0)
    IN  [cat |-> item.k, spent |-> spent, lim |-> item.v,
         verdict |-> IF spent >= item.v THEN "over" ELSE "under"]

BudgetLine(s, item) ==
    LET spent == DictGet(s.categories, item.k, 0)
    IN  [cat |-> item.k, spent |-> spent, lim |-> item.v,
         verdict |-> IF spent > item.v THEN "over" ELSE "under"]

BudgetLines(s) == [i \in 1..Len(s.budgets) |-> BudgetLine(s, s.budgets[i])]

\* variant: the income rule is tried before the spending rule
Intent_IncomeFirst(user_msg) ==
    IF Contains(K_income, user_msg) THEN "income"
    ELSE IF Contains(K_spend, user_msg) \/ Contains(K_expense, user_msg) THEN "spending"
    ELSE IF Contains(K_budget, user_msg) THEN "budget"
    ELSE "help"

\* the intent rule the lower-cased message selects
Intent(user_msg) ==
    IF Contains(K_spend, user_msg) \/ Contains(K_expense, user_msg) THEN "spending"
    ELSE IF Contains(K_income, user_msg) THEN "income"
    ELSE IF Contains(K_budget, user_msg) THEN "budget"
    ELSE "help"

\* the reply text, by what it says
Reply(message, month, s) ==
    LET intent == Intent(lower(message))
    IN  CASE intent = "spending" ->
               IF Len(s.categories) > 0
               THEN [kind |-> "spending", period |-> month, expense |-> s.expense,
                     top_cat |-> TopCat(s.categories),
                     top_amount |-> DictGet(s.categories, TopCat(s.categories), 0)]
               ELSE [kind |-> "spending", period |-> month, expense |-> s.expense]
          [] intent = "income" ->
               [kind |-> "income", period |-> month, income |-> s.income, net |-> s.net]
          [] intent = "budget" ->
               IF Len(BudgetLines(s)) > 0
               THEN [kind |-> "budget", lines |-> BudgetLines(s)]
               ELSE [kind |-> "no_budgets"]
          [] intent = "help" -> [kind |-> "help"]

\* the two best-effort inserts: the second is not tried once the first raised
Persist(log, outcome) ==
    CASE outcome = "ok" ->
            create_document(create_document(log, [role |-> "user"]), [role |-> "assistant"])
      [] outcome = "fail_user" -> log
      [] outcome = "fail_assistant" -> create_document(log, [role |-> "user"])

\* variant: a failed insert reaches the outer handler
ChatReturn_Propagate(reply, s, outcome) ==
    IF outcome = "ok" THEN [status |-> 200, reply |-> reply, summary |-> s]
    ELSE [status |-> 500]

\* what the handler returns after the inserts
ChatReturn(reply, s, outcome) == [status |-> 200, reply |-> reply, summary |-> s]

\* POST /api/chat
chat(message, month, outcome) ==
    /\ resp = Idle
    /\ IF month # None /\ ~MonthOk(month)
       THEN /\ resp' = [op |-> "chat", message |-> message, month |-> month,
                        persist |-> "none", ret |-> [status |-> 500]]
            /\ UNCHANGED chatmessage
       ELSE /\ BagCardinality(chatmessage) + 2 <= MaxChat
            /\ \E r \in SummaryResults(month) :
                  resp' = [op |-> "chat", message |-> message, month |-> month,
                           persist |-> outcome,
                           ret |-> ChatReturn(Reply(message, month, r.body), r.body, outcome)]
            /\ chatmessage' = Persist(chatmessage, outcome)
    /\ UNCHANGED <<transaction, budget>>

\* the response leaves the server; the next request is taken
Respond ==
    /\ resp # Idle
    /\ resp' = Idle
    /\ UNCHANGED <<transaction, budget, chatmessage>>

\* ---------------------------------------------------------------- requests
Months == {None, M_Jan, M_Dec, M_13}

ChatMonths == {None, M_Jan, M_13}

Limits == {<<1>>, <<100>>}

AddTransaction == \E txn \in TxnBodies, ok \in BOOLEAN : add_transaction(txn, ok)

SetBudget == \E b \in BudgetBodies, ok \in BOOLEAN : set_budget(b, ok)

ListTransactions == \E limit \in Limits : list_transactions(limit)

ListBudgets == \E month \in {None, M_Jan} : list_budgets(month)

Summary == \E month \in Months : summary(month)

Chat == \E message \in Messages, month \in ChatMonths, outcome \in PersistOutcomes :
            chat(message, month, outcome)

Next ==
    \/ AddTransaction
    \/ SetBudget
    \/ ListTransactions
    \/ ListBudgets
    \/ Summary
    \/ Chat
    \/ Respond

Spec == Init /\ [][Next]_vars

\* ================================================================ claims
\* the summary a response carries, with the month it was asked for
HasSummary ==
    \/ resp.op = "summary" /\ resp.status = 200
    \/ resp.op = "chat" /\ resp.ret.status = 200

TheSummary == IF resp.op = "summary" THEN resp.body ELSE resp.ret.summary

\* the total amount of the documents S of bag B, copies counted
RECURSIVE AmountOf(_, _)
AmountOf(S, B) ==
    IF S = {} THEN 0
    ELSE LET d == CHOOSE x \in S : TRUE
         IN  d.amount * CopiesIn(d, B) + AmountOf(S \ {d}, B)

\* first day of the month numbered idx (year * 12 + month - 1)
FirstDayOf(idx) == datetime(idx \div 12, (idx % 12) + 1, 1)

MonthIdx(month) == int(SubSeq(month, 1, 4)) * 12 + int(SubSeq(month, 6, 7)) - 1

\* the date of d lies in [first day of month, first day of the month after)
InMonth(d, month) ==
    /\ d.date.tag = "datetime"
    /\ DtLeq(FirstDayOf(MonthIdx(month)), d.date)
    /\ DtLess(d.date, FirstDayOf(MonthIdx(month) + 1))

StoredInMonth(month) == {d \in BagToSet(transaction) : InMonth(d, month)}

\* the stored transactions a summary for month is about
InScope(month) ==
    IF month = None THEN BagToSet(transaction) ELSE StoredInMonth(month)

\* C1: a summary for month M ("YYYY-MM") counts only transactions dated in
\* [first day of M, first day of the month after M), December rolling to
\* 1 January of the next year: every fetched transaction lies in that window
\* and the totals are the totals of the stored transactions in it.
C1_MonthWindow ==
    (resp.op = "summary" /\ resp.status = 200 /\ resp.month # None
       /\ MatchesMonthPattern(resp.month))
    => /\ \A d \in resp.docs : InMonth(d, resp.month)
       /\ resp.body.income + resp.body.expense
            = AmountOf(StoredInMonth(resp.month), transaction)

\* a December summary counting the 31 December transaction while one dated
\* 1 January of the next year is stored
C1_Witness ==
    /\ resp.op = "summary" /\ resp.status = 200 /\ resp.month = M_Dec
    /\ \E d \in BagToSet(transaction) : d.date = datetime(2026, 1, 1)
    /\ \E d \in resp.docs : d.date = datetime(2025, 12, 31)
    /\ resp.body.expense = 50

\* sum(d.values())
RECURSIVE ValuesSum(_)
ValuesSum(d) == IF Len(d) = 0 THEN 0 ELSE d[1].v + ValuesSum(Tail(d))

Items(d) == {d[i] : i \in 1..Len(d)}

\* C3: two GET /api/summary calls for the same month on the same stored data
\* return the same income, expense, net, categories and budgets.
C3_SummaryIdempotent ==
    \A month \in Months :
        (month = None \/ MonthOk(month)) =>
            \A r1, r2 \in SummaryResults(month) :
                /\ r1.body.income = r2.body.income
                /\ r1.body.expense = r2.body.expense
                /\ r1.body.net = r2.body.net
                /\ Items(r1.body.categories) = Items(r2.body.categories)
                /\ Items(r1.body.budgets) = Items(r2.body.budgets)

\* C4: the limit a summary reports for a category is the limit of the record
\* of that category fetched last, also when several records of the category
\* exist for the month.
C4_LastFetchedWins ==
    (resp.op = "summary" /\ resp.status = 200) =>
        LET fetched == resp.budget_docs
            budgets == resp.body.budgets
        IN  /\ \A i \in 1..Len(fetched) : DictHas(budgets, fetched[i].category)
            /\ \A n \in 1..Len(budgets) :
                  \E i \in 1..Len(fetched) :
                     /\ fetched[i].category = budgets[n].k
                     /\ \A j \in (i + 1)..Len(fetched) : fetched[j].category # budgets[n].k
                     /\ budgets[n].v = fetched[i].limit

\* a January summary over two groceries budgets of that month with limits 60
\* then 50
C4_Witness ==
    /\ resp.op = "summary" /\ resp.status = 200 /\ resp.month = M_Jan
    /\ resp.budget_docs = <<Bud(M_Jan, "groceries", 60), Bud(M_Jan, "groceries", 50)>>
    /\ resp.body.budgets = <<[k |-> "groceries", v |-> 50]>>

\* C5: when an insert of a chat message fails, POST /api/chat still answers
\* 200 with the reply and summary it answers when both inserts succeed.
C5_PersistFailureAbsorbed ==
    (resp.op = "chat" /\ resp.persist \in {"fail_user", "fail_assistant"}) =>
        /\ resp.ret.status = 200
        /\ \E r \in SummaryResults(resp.month) :
              resp.ret = [status |-> 200, summary |-> r.body,
                          reply |-> Reply(resp.message, resp.month, r.body)]

\* a budget reply returned although the insert of the reply failed
C5_Witness ==
    /\ resp.op = "chat" /\ resp.persist = "fail_assistant"
    /\ resp.ret.status = 200 /\ resp.ret.reply.kind = "budget"
    /\ CopiesIn([role |-> "user"], chatmessage) = 1
    /\ CopiesIn([role |-> "assistant"], chatmessage) = 0

BadTransaction(t) ==
    \/ ~(t.amount > 0)
    \/ t.type \notin {"expense", "income"}
    \/ ~MatchesDatePattern(t.date)

BadBudget(b) ==
    \/ b.limit < 0
    \/ ~MatchesMonthPattern(b.month)

\* C6: a write request whose body violates a schema constraint is answered
\* with a client error and leaves every collection of the store unchanged.
C6_InvalidWriteRejected ==
    [][ (\/ resp'.op = "add_transaction" /\ BadTransaction(resp'.req)
         \/ resp'.op = "set_budget" /\ BadBudget(resp'.req))
        => /\ resp'.status = 422
           /\ transaction' = transaction
           /\ budget' = budget
           /\ chatmessage' = chatmessage ]_vars

\* a transaction with amount 0 was rejected
C6_Witness ==
    /\ resp.op = "add_transaction" /\ resp.status = 422
    /\ resp.req.amount = 0
    /\ BagCardinality(transaction) = 1

\* C7: every stored transaction has its date as a timestamp at midnight.
C7_StoredDateNormalized ==
    \A d \in BagToSet(transaction) :
        /\ d.date.tag = "datetime"
        /\ d.date.hour = 0 /\ d.date.minute = 0 /\ d.date.second = 0

\* C8: the reply is that of the first rule, in the order spend/expense,
\* income, budget, help, that the lower-cased message matches.
C8_FirstRuleWins ==
    (resp.op = "chat" /\ resp.ret.status = 200) =>
        LET m == lower(resp.message)
            kind == resp.ret.reply.kind
        IN  IF Contains(K_spend, m) \/ Contains(K_expense, m) THEN kind = "spending"
            ELSE IF Contains(K_income, m) THEN kind = "income"
            ELSE IF Contains(K_budget, m) THEN kind \in {"budget", "no_budgets"}
            ELSE kind = "help"

\* a message naming budget, income and expense, in that order, got the
\* spending reply
C8_Witness ==
    /\ resp.op = "chat" /\ resp.ret.status = 200
    /\ resp.message = Msg_all
    /\ resp.ret.reply.kind = "spending"

\* the summed expense of category cat over the transactions in scope
Spent(cat) ==
    AmountOf({d \in InScope(resp.month) : d.type = "expense" /\ d.category = cat},
             transaction)

\* C9: the budget reply has one line per (category, limit) pair of budgets,
\* in their order; a line says over exactly when the category's summed expense
\* exceeds the limit, a category without expense shows 0, and with no budgets
\* the reply is "No budgets set yet.".
C9_BudgetReply ==
    (resp.op = "chat" /\ resp.ret.status = 200
       /\ resp.ret.reply.kind \in {"budget", "no_budgets"}) =>
        LET s == resp.ret.summary
            reply == resp.ret.reply
        IN  IF Len(s.budgets) = 0 THEN reply.kind = "no_budgets"
            ELSE /\ reply.kind = "budget"
                 /\ Len(reply.lines) = Len(s.budgets)
                 /\ \A i \in 1..Len(s.budgets) :
                       /\ reply.lines[i].cat = s.budgets[i].k
                       /\ reply.lines[i].lim = s.budgets[i].v
                       /\ reply.lines[i].spent = Spent(s.budgets[i].k)
                       /\ reply.lines[i].verdict =
                            IF Spent(s.budgets[i].k) > s.budgets[i].v
                            THEN "over" ELSE "under"

\* a budget reply with a category spent exactly at its limit (under) and a
\* budgeted category without expense
C9_Witness ==
    /\ resp.op = "chat" /\ resp.ret.status = 200
    /\ resp.ret.reply.kind = "budget"
    /\ \E i, j \in 1..Len(resp.ret.reply.lines) :
          /\ resp.ret.reply.lines[i] =
                [cat |-> "groceries", spent |-> 50, lim |-> 50, verdict |-> "under"]
          /\ resp.ret.reply.lines[j] =
                [cat |-> "rent", spent |-> 0, lim |-> 50, verdict |-> "under"]

\* C10: no request removes or changes a stored transaction or budget, and an
\* accepted POST /api/budgets adds one record beside those already stored,
\* also for a (month, category) pair that has a record.
C10_AppendOnly ==
    [][ /\ transaction \sqsubseteq transaction'
        /\ budget \sqsubseteq budget'
        /\ (resp'.op = "set_budget" /\ resp'.status = 200)
             => budget' = budget (+) SetToBag({resp'.req}) ]_vars

\* a second budget for (2025-01, groceries) was accepted and both are stored
C10_Witness ==
    /\ resp.op = "set_budget" /\ resp.status = 200
    /\ resp.req = Bud(M_Jan, "groceries", 60)
    /\ CopiesIn(Bud(M_Jan, "groceries", 50), budget) = 1
    /\ CopiesIn(Bud(M_Jan, "groceries", 60), budget) = 1
====
